---- MODULE Spec2Model ----
(***************************************************************************)
(* A model of kleinanzeigen_bot.KleinanzeigenBot: one run of the bot       *)
(* (run -> load_config -> load_ads -> browser session -> publish_ads or    *)
(* delete_ads) over a set of ad definition files.                          *)
(*                                                                         *)
(* Python values.  A value that may be None is the set of at most one      *)
(* element: {} is None and {v} is the value v.  A mapping (dict) is a      *)
(* function whose DOMAIN is the set of keys that are present.  Strings are *)
(* strings; a timestamp is the number of clock ticks since the epoch       *)
(* (TicksPerDay ticks make one day); an id is a record that keeps whether  *)
(* the YAML scalar was an integer or a string of digits.                   *)
(***************************************************************************)
EXTENDS Integers, Sequences, FiniteSets, TLC

-----------------------------------------------------------------------------
(* Bounds of the model *)

\* number of ad definition files below the configuration directory
NumFiles == 2
\* clock resolution: ticks per day
TicksPerDay == 2
\* how many ticks the clock may advance while the browser is driven
MaxTicks == 1
\* the longest list of image patterns of the runs that exercise the images
MaxPatterns == 2

\* Program constants
MaxDescriptionLen == 4000
MinTitleLen == 10

-----------------------------------------------------------------------------
(* Python helpers *)

None == {}
Some(v) == {v}
Val(o) == CHOOSE v \in o : TRUE

\* truthiness of an optional str / int / bool / list
TruthyStr(o) == o # {} /\ o # {""}
TruthyInt(o) == o # {} /\ o # {0}
TruthyBool(o) == o = {TRUE}
TruthyList(o) == o # {} /\ o # {<<>>}

RECURSIVE Rep(_, _)
\* the string s repeated n times
Rep(s, n) ==
    IF n = 0 THEN ""
    ELSE IF n % 2 = 1 THEN s \o Rep(s, n - 1)
    ELSE LET h == Rep(s, n \div 2) IN h \o h

\* an ad id as written in a definition file: the integer n, or the string "n"
IdInt(n) == [str |-> FALSE, n |-> n]
IdStr(n) == [str |-> TRUE, n |-> n]
\* bool(id): None and 0 are falsy, every other integer and every digit string is truthy
TruthyId(o) == o # {} /\ o # {IdInt(0)}
\* int(id)
IntOfId(o) == Some(IdInt(Val(o).n))

-----------------------------------------------------------------------------
(* The fields of an ad definition (spec section 6) *)

BoolFields == {"active"}
StrFields == {"type", "title", "description", "category", "price", "price_type",
              "shipping_type", "shipping_costs", "contact_name"}
IntFields == {"republication_interval"}
TimeFields == {"created_on", "updated_on"}
AdFieldNames == BoolFields \cup StrFields \cup IntFields \cup TimeFields \cup {"id", "images"}

\* resources/ad_fields.yaml: every permitted field, with its schema default
ad_fields == [k \in AdFieldNames |-> IF k = "images" THEN Some(<<>>) ELSE None]

\* utils.apply_defaults(target, defaults, ignore, override): fills the keys that are
\* absent from target (unless ignored) and replaces the present ones that override
\* accepts. The two predicates of the callers are given by their extension: ignore
\* is the set of the keys it ignores, override the set of the keys of target whose
\* value it accepts.
apply_defaults(target, defaults, ignore, override) ==
    [k \in DOMAIN target \cup {d \in DOMAIN defaults : d \notin ignore} |->
        IF k \in DOMAIN target
        THEN IF k \in DOMAIN defaults /\ k \notin ignore /\ k \in override
             THEN defaults[k]
             ELSE target[k]
        ELSE defaults[k]]

\* the two predicates of the default call: nothing ignored, nothing overridden
NoKey == {}
\* load_ads, layer 1: ignore = lambda k, _: k == "description"
IgnoreDescription == {"description"}
\* load_ads, layer 1: override = lambda _, v: v == "" (only a text can equal "")
OverrideEmptyString(target) == {k \in DOMAIN target \cap StrFields : target[k] = Some("")}

-----------------------------------------------------------------------------
(* The configuration (config.yaml merged with config_defaults.yaml) *)

\* ad_defaults of config_defaults.yaml; description is the mapping {prefix, suffix}
AdDefaults(prefix, suffix) ==
    [k \in {"active", "type", "description", "price_type", "shipping_type",
            "contact_name", "republication_interval"} |->
        CASE k = "active" -> Some(TRUE)
          [] k = "type" -> Some("OFFER")
          [] k = "description" -> [prefix |-> prefix, suffix |-> suffix]
          [] k = "price_type" -> Some("NEGOTIABLE")
          [] k = "shipping_type" -> Some("SHIPPING")
          [] k = "contact_name" -> Some("")
          [] k = "republication_interval" -> Some(7)]

\* resources/categories.yaml
BundledCategories == ("Autos" :> "216") @@ ("Notebooks" :> "161/278")

Config(username, password, ad_files, prefix, suffix, categories) ==
    [login |-> [username |-> username, password |-> password],
     ad_files |-> ad_files,
     ad_defaults |-> AdDefaults(prefix, suffix),
     categories |-> categories]

NoCategories == [k \in {} |-> ""]
ConfigPlain ==
    Config(Some("user"), Some("secret"), <<"ad_*.yaml">>, Some(""), None, NoCategories)
ConfigRich ==
    Config(Some("user"), Some("secret"), <<"ad_1.yaml", "ad_*.yaml">>, Some("Hi! "),
           Some(" Bye."), ("Autos" :> "999") @@ ("Boote" :> "211"))
ConfigNoAds ==
    Config(Some("user"), Some("secret"), <<"old/*.yaml">>, Some(""), Some(""), NoCategories)
ConfigNoUser ==
    Config(Some(""), Some("secret"), <<"ad_*.yaml">>, Some(""), Some(""), NoCategories)
ConfigNoPassword ==
    Config(Some("user"), None, <<"ad_*.yaml">>, Some(""), Some(""), NoCategories)

\* (mutant) the config's entries, updated with the bundled table
LoadCategoriesBundledWins(cfg) ==
    [k \in DOMAIN BundledCategories \cup DOMAIN cfg.categories |->
        IF k \in DOMAIN BundledCategories THEN BundledCategories[k] ELSE cfg.categories[k]]

\* load_config: self.categories = bundled table, updated with the config's entries
LoadCategories(cfg) ==
    IF DOMAIN cfg.categories # {}
    THEN [k \in DOMAIN BundledCategories \cup DOMAIN cfg.categories |->
             IF k \in DOMAIN cfg.categories THEN cfg.categories[k] ELSE BundledCategories[k]]
    ELSE BundledCategories

-----------------------------------------------------------------------------
(* The image files beside the ad files, and glob over them *)

\* the files of the ad directory, in lexicographic order of their names
ImageFiles == <<"a.jpg", "b.PNG", "c.txt">>
\* (mutant) the extension as it is written
ExtAsWritten(f) == CASE f = "a.jpg" -> ".jpg" [] f = "b.PNG" -> ".PNG" [] f = "c.txt" -> ".txt"

\* os.path.splitext(image_file)[1].lower()
LowerExt(f) == CASE f = "a.jpg" -> ".jpg" [] f = "b.PNG" -> ".png" [] f = "c.txt" -> ".txt"
\* glob.glob(image_pattern, root_dir = ad_dir)
Glob(pattern) ==
    CASE pattern = "*.jpg" -> {"a.jpg"}
      [] pattern = "*.{jpg,PNG}" -> {"a.jpg", "b.PNG"}
      [] pattern = "b.PNG" -> {"b.PNG"}
      [] pattern = "*" -> {"a.jpg", "b.PNG", "c.txt"}
      [] pattern = "*.gif" -> {}
      [] OTHER -> {}
\* abspath(image_file, relative_to = ad_file)
AbsImage(f) == "/ads/" \o f
AllowedImageExts == {".gif", ".jpg", ".jpeg", ".png"}

RECURSIVE SortedFrom(_, _)
\* sorted(pattern_images): the members of S in the order of ImageFiles, from position i on
SortedFrom(S, i) ==
    IF i > Len(ImageFiles) THEN <<>>
    ELSE (IF ImageFiles[i] \in S THEN <<AbsImage(ImageFiles[i])>> ELSE <<>>) \o SortedFrom(S, i + 1)

RECURSIVE ExtendAll(_, _)
\* images.extend(sorted(pattern_images)) for the patterns from position i on
ExtendAll(patterns, i) ==
    IF i > Len(patterns) THEN <<>>
    ELSE SortedFrom(Glob(patterns[i]), 1) \o ExtendAll(patterns, i + 1)

RECURSIVE DedupKeepLast(_, _)
\* (mutant) last occurrences, in order
DedupKeepLast(s, seen) ==
    IF s = <<>> THEN <<>>
    ELSE IF \E i \in 2..Len(s) : s[i] = Head(s) THEN DedupKeepLast(Tail(s), seen)
    ELSE <<Head(s)>> \o DedupKeepLast(Tail(s), seen)

RECURSIVE Dedup(_, _)
\* list(dict.fromkeys(images)): first occurrences, in order
Dedup(s, seen) ==
    IF s = <<>> THEN <<>>
    ELSE IF Head(s) \in seen THEN Dedup(Tail(s), seen)
    ELSE <<Head(s)>> \o Dedup(Tail(s), seen \cup {Head(s)})

\* some matched file has an unsupported extension
BadImageType(patterns) ==
    \E i \in 1..Len(patterns) : \E f \in Glob(patterns[i]) : LowerExt(f) \notin AllowedImageExts

-----------------------------------------------------------------------------
(* load_ads: what the loop body does with one ad file *)

\* (mutant) the merged definition cut down to the permitted fields of ad_fields
MergePermittedOnly(ad_cfg_orig, cfg) ==
    [k \in AdFieldNames |->
        apply_defaults(
            apply_defaults(ad_cfg_orig, cfg.ad_defaults, IgnoreDescription,
                           OverrideEmptyString(ad_cfg_orig)),
            ad_fields, NoKey, NoKey)[k]]

\* ad_cfg after the two apply_defaults calls on the deep copy of ad_cfg_orig
Merge(ad_cfg_orig, cfg) ==
    apply_defaults(
        apply_defaults(ad_cfg_orig, cfg.ad_defaults, IgnoreDescription,
                       OverrideEmptyString(ad_cfg_orig)),
        ad_fields, NoKey, NoKey)

\* (mutant) the filter on active without regard to ignore_inactive
SkipInactiveAnyCaller(ad_cfg, ignore_inactive) == ~TruthyBool(ad_cfg["active"])

\* "SKIPPED: inactive ad"
SkipInactive(ad_cfg, ignore_inactive) == ignore_inactive /\ ~TruthyBool(ad_cfg["active"])

\* (mutant) the filter on the id without regard to check_id
SkipNotNewAnyCaller(ad_cfg, selector, check_id) ==
    selector = "new" /\ TruthyId(ad_cfg["id"])

\* "SKIPPED: ad is not new"
SkipNotNew(ad_cfg, selector, check_id) ==
    selector = "new" /\ TruthyId(ad_cfg["id"]) /\ check_id

\* last_updated_on: updated_on if set, else created_on if set, else None
LastUpdatedOn(ad_cfg) ==
    IF ad_cfg["updated_on"] # None THEN ad_cfg["updated_on"]
    ELSE IF ad_cfg["created_on"] # None THEN ad_cfg["created_on"]
    ELSE None

\* timedelta.days of (utcnow - last_updated_on): whole days, rounded down
AgeDays(time, last) == (time - last) \div TicksPerDay

\* (mutant) an ad as old as its interval counts as due
NotDueStrict(days, interval) == days < interval

\* the comparison of ad_age.days with republication_interval
NotDue(days, interval) == days <= interval

\* "SKIPPED: ad was last published %d days ago"
SkipNotDue(ad_cfg, selector, time) ==
    /\ selector = "due"
    /\ LastUpdatedOn(ad_cfg) # None
    /\ ad_cfg["republication_interval"] # None
    /\ NotDue(AgeDays(time, Val(LastUpdatedOn(ad_cfg))), Val(ad_cfg["republication_interval"]))

\* the comparison of the age with a republication_interval of None raises TypeError
DueTypeError(ad_cfg, selector) ==
    selector = "due" /\ LastUpdatedOn(ad_cfg) # None /\ ad_cfg["republication_interval"] = None

\* the ids a selector that is a list of ids names
SelectorIds(selector) == IF selector = "5" THEN {5} ELSE {}
\* the selector is none of the three keywords
IsIdList(selector) == selector \notin {"all", "due", "new"}

\* (mutant) load_ads with a fourth filter, on the ids of an id list
SkippedWithIdFilter(ad_cfg, selector, time, ignore_inactive, check_id) ==
    \/ SkipInactive(ad_cfg, ignore_inactive)
    \/ SkipNotNew(ad_cfg, selector, check_id)
    \/ SkipNotDue(ad_cfg, selector, time)
    \/ /\ IsIdList(selector)
       /\ ~(TruthyId(ad_cfg["id"]) /\ Val(ad_cfg["id"]).n \in SelectorIds(selector))

\* the three filters of load_ads, in their order
Skipped(ad_cfg, selector, time, ignore_inactive, check_id) ==
    \/ SkipInactive(ad_cfg, ignore_inactive)
    \/ SkipNotNew(ad_cfg, selector, check_id)
    \/ SkipNotDue(ad_cfg, selector, time)

\* x or ""
OrEmpty(o) == IF o = None THEN "" ELSE Val(o)

\* ad_cfg["description"] = descr_prefix + (ad_cfg["description"] or "") + descr_suffix
WithDescription(ad_cfg, cfg) ==
    [ad_cfg EXCEPT !["description"] =
        Some(OrEmpty(cfg.ad_defaults["description"].prefix)
             \o OrEmpty(ad_cfg["description"])
             \o OrEmpty(cfg.ad_defaults["description"].suffix))]

\* (mutant) the price is looked at for GIVE_AWAY only
PriceRuleGiveAwayOnly(ad_cfg) ==
    CASE ad_cfg["price_type"] = Some("GIVE_AWAY") -> ~TruthyStr(ad_cfg["price"])
      [] OTHER -> TRUE

\* if price_type == "GIVE_AWAY": ensure(not price); elif price_type == "FIXED":
\* assert_has_value("price")
PriceRule(ad_cfg) ==
    CASE ad_cfg["price_type"] = Some("GIVE_AWAY") -> ~TruthyStr(ad_cfg["price"])
      [] ad_cfg["price_type"] = Some("FIXED") -> TruthyStr(ad_cfg["price"])
      [] OTHER -> TRUE

\* (mutant) the ensure calls without the one on the title
ValidationRulesNoTitle(ad_cfg) ==
    << <<"description_length", Len(Val(ad_cfg["description"])) <= MaxDescriptionLen>>,
       <<"type", ad_cfg["type"] \in {Some("OFFER"), Some("WANTED")}>>,
       <<"description", TruthyStr(ad_cfg["description"])>>,
       <<"price_type", ad_cfg["price_type"] \in
            {Some("FIXED"), Some("NEGOTIABLE"), Some("GIVE_AWAY"), Some("NOT_APPLICABLE")}>>,
       <<"price", PriceRule(ad_cfg)>>,
       <<"shipping_type", ad_cfg["shipping_type"] \in
            {Some("PICKUP"), Some("SHIPPING"), Some("NOT_APPLICABLE")}>>,
       <<"contact.name", TruthyStr(ad_cfg["contact_name"])>>,
       <<"republication_interval", TruthyInt(ad_cfg["republication_interval"])>> >>

\* (mutant) the length of the description checked together with its presence, after
\* type and title
ValidationRulesLengthThird(ad_cfg) ==
    << <<"type", ad_cfg["type"] \in {Some("OFFER"), Some("WANTED")}>>,
       <<"title", ad_cfg["title"] # None /\ Len(Val(ad_cfg["title"])) >= MinTitleLen>>,
       <<"description_length", Len(Val(ad_cfg["description"])) <= MaxDescriptionLen>>,
       <<"description", TruthyStr(ad_cfg["description"])>>,
       <<"price_type", ad_cfg["price_type"] \in
            {Some("FIXED"), Some("NEGOTIABLE"), Some("GIVE_AWAY"), Some("NOT_APPLICABLE")}>>,
       <<"price", PriceRule(ad_cfg)>>,
       <<"shipping_type", ad_cfg["shipping_type"] \in
            {Some("PICKUP"), Some("SHIPPING"), Some("NOT_APPLICABLE")}>>,
       <<"contact.name", TruthyStr(ad_cfg["contact_name"])>>,
       <<"republication_interval", TruthyInt(ad_cfg["republication_interval"])>> >>

\* the ensure(...) calls of load_ads in the order of the code: <<rule, holds>>
ValidationRules(ad_cfg) ==
    << <<"description_length", Len(Val(ad_cfg["description"])) <= MaxDescriptionLen>>,
       <<"type", ad_cfg["type"] \in {Some("OFFER"), Some("WANTED")}>>,
       <<"title", ad_cfg["title"] # None /\ Len(Val(ad_cfg["title"])) >= MinTitleLen>>,
       <<"description", TruthyStr(ad_cfg["description"])>>,
       <<"price_type", ad_cfg["price_type"] \in
            {Some("FIXED"), Some("NEGOTIABLE"), Some("GIVE_AWAY"), Some("NOT_APPLICABLE")}>>,
       <<"price", PriceRule(ad_cfg)>>,
       <<"shipping_type", ad_cfg["shipping_type"] \in
            {Some("PICKUP"), Some("SHIPPING"), Some("NOT_APPLICABLE")}>>,
       <<"contact.name", TruthyStr(ad_cfg["contact_name"])>>,
       <<"republication_interval", TruthyInt(ad_cfg["republication_interval"])>> >>

\* the rule of the first ensure that raises, "ok" when none does
FirstFailure(rules) ==
    IF \A i \in 1..Len(rules) : rules[i][2] THEN "ok"
    ELSE rules[CHOOSE i \in 1..Len(rules) :
                 ~rules[i][2] /\ \A j \in 1..(i - 1) : rules[j][2]][1]

Validate(ad_cfg) == FirstFailure(ValidationRules(ad_cfg))

\* str(round(utils.parse_decimal(shipping_costs), 2))
NormalizeCosts(s) ==
    CASE s = "4,5" -> "4.50"
      [] s = "3.999" -> "4.00"
      [] OTHER -> s

\* self.categories.get(category, category)
ResolveCategory(categories, c) == IF c \in DOMAIN categories THEN categories[c] ELSE c

\* the image checks: "ok", or the ensure that raises
ImageFailure(ad_cfg) ==
    IF ~TruthyList(ad_cfg["images"]) THEN "ok"
    ELSE IF BadImageType(Val(ad_cfg["images"])) THEN "image_type"
    ELSE IF ExtendAll(Val(ad_cfg["images"]), 1) = <<>> THEN "no_images"
    ELSE "ok"

\* the derived fields: id, category, shipping_costs, images
Derive(ad_cfg, categories) ==
    [ad_cfg EXCEPT
        !["id"] = IF TruthyId(@) THEN IntOfId(@) ELSE @,
        !["category"] = IF TruthyStr(@) THEN Some(ResolveCategory(categories, Val(@))) ELSE @,
        !["shipping_costs"] = IF TruthyStr(@) THEN Some(NormalizeCosts(Val(@))) ELSE @,
        !["images"] = IF TruthyList(@) THEN Some(Dedup(ExtendAll(Val(@), 1), {})) ELSE @]

-----------------------------------------------------------------------------
(* publish_ad and delete_ad: what they do to the two views of an ad *)

\* delete_ad: ad_cfg["id"] = None
ClearId(ad_cfg) == [ad_cfg EXCEPT !["id"] = None]

\* d[k] = v on a mapping, adding the key when it is absent
SetKey(d, k, v) == [x \in DOMAIN d \cup {k} |-> IF x = k THEN v ELSE d[x]]

\* the test of publish_ad that decides whether created_on is written
IsFirstPublication(ad_cfg) == ad_cfg["created_on"] = None /\ ~TruthyId(ad_cfg["id"])

\* (mutant) the timestamps are persisted, the id the portal assigned is not
PublishedOrigNoId(ad_cfg, ad_cfg_orig, time, ad_id) ==
    LET updated == SetKey(ad_cfg_orig, "updated_on", Some(time))
    IN IF IsFirstPublication(ad_cfg)
       THEN SetKey(updated, "created_on", updated["updated_on"])
       ELSE updated

\* publish_ad after the confirmation page: updated_on, created_on and id of ad_cfg_orig
PublishedOrig(ad_cfg, ad_cfg_orig, time, ad_id) ==
    LET updated == SetKey(ad_cfg_orig, "updated_on", Some(time))
        created == IF IsFirstPublication(ad_cfg)
                   THEN SetKey(updated, "created_on", updated["updated_on"])
                   ELSE updated
    IN SetKey(created, "id", Some(IdInt(ad_id)))

\* (mutant) no deep copy: ad_cfg_orig and ad_cfg are the same mapping
LoadedOrigAliased(raw, ad_cfg) == ad_cfg

\* load_ads: ad_cfg_orig is what the file holds; ad_cfg starts as a deep copy of it
LoadedOrig(raw, ad_cfg) == raw

-----------------------------------------------------------------------------
(* The ad definitions the runs are given *)

\* the clock at the start of a run
StartTime == 10 * TicksPerDay
Days(n) == n * TicksPerDay

BaseAd ==
    [title |-> Some("A valid ad title"), description |-> Some("Some text"),
     category |-> Some("Autos"), price |-> Some("15"), price_type |-> Some("FIXED"),
     shipping_costs |-> Some("4,5"), images |-> Some(<<"*.jpg", "*.{jpg,PNG}">>),
     contact_name |-> Some("Bob")]

\* published 7 days ago under id 5: not due at the default interval of 7
RecentAd ==
    SetKey(SetKey(SetKey(BaseAd, "id", Some(IdInt(5))),
                  "created_on", Some(StartTime - Days(9))),
           "updated_on", Some(StartTime - Days(7)))

\* published 8 days ago under the id "6", with no created_on: due
OldAd ==
    SetKey(SetKey(SetKey(BaseAd, "id", Some(IdStr(6))),
                  "updated_on", Some(StartTime - Days(8))),
           "type", Some(""))

\* carries an id but no timestamp at all
IdOnlyAd == SetKey(SetKey(BaseAd, "id", Some(IdInt(5))), "price_type", Some("NEGOTIABLE"))

\* inactive, and its type is not allowed
InactiveBadAd == SetKey(SetKey(BaseAd, "active", Some(FALSE)), "type", Some("RENT"))

\* active and new, and its title is too short
ShortTitleAd == SetKey(BaseAd, "title", Some("Too short"))

\* published 7 days ago (not due), not new, and without a contact name
RecentBadAd == SetKey(RecentAd, "contact_name", None)

\* published 7 days ago, and its republication_interval is given as null
NoIntervalAd == SetKey(RecentAd, "republication_interval", None)

\* inactive and otherwise valid: never published
InactiveAd == SetKey(BaseAd, "active", Some(FALSE))

\* inactive, published 8 days ago under id 5: due, and not new
InactiveOldAd ==
    SetKey(SetKey(InactiveAd, "id", Some(IdInt(5))), "updated_on", Some(StartTime - Days(8)))

RunAds == {BaseAd, RecentAd, OldAd, IdOnlyAd, InactiveBadAd, ShortTitleAd, RecentBadAd,
           NoIntervalAd}

-----------------------------------------------------------------------------
(* Ad file discovery.  The path i >= 1 stands for ad_i.yaml and the path 0 for  *)
(* a copy of ad_fields.yaml in the same directory; paths sort by their number. *)

AdPaths == 1..NumFiles
FieldsPath == 0

\* glob.glob(file_pattern, root_dir = data_root_dir)
AdGlob(pattern) ==
    CASE pattern = "ad_*.yaml" -> AdPaths \cup {FieldsPath}
      [] pattern = "ad_1.yaml" -> {1}
      [] OTHER -> {}

\* the set ad_files of load_ads: every match that does not end with ad_fields.yaml
DiscoverAdFiles(patterns) ==
    {f \in UNION {AdGlob(patterns[i]) : i \in 1..Len(patterns)} : f # FieldsPath}

RECURSIVE SortedDescending(_)
\* (mutant) the ad files from the last path to the first
SortedDescending(S) ==
    IF S = {} THEN <<>>
    ELSE LET m == CHOOSE x \in S : \A y \in S : x >= y IN <<m>> \o SortedDescending(S \ {m})

RECURSIVE Sorted(_)
\* sorted(ad_files)
Sorted(S) ==
    IF S = {} THEN <<>>
    ELSE LET m == CHOOSE x \in S : \A y \in S : x <= y IN <<m>> \o Sorted(S \ {m})

-----------------------------------------------------------------------------
(* The state *)

VARIABLES
    command,        \* self.command
    ads_selector,   \* self.ads_selector
    delete_old_ads, \* self.delete_old_ads
    config_file,    \* the configuration on disk
    config,         \* self.config, None before load_config
    categories,     \* self.categories
    files,          \* the ad definition files on disk: path -> raw definition
    remote,         \* the ids of the ads that are online
    now,            \* the clock (utcnow), in ticks
    pc,             \* where the run is
    error,          \* the failure that ended the run, "" if none
    todo,           \* load_ads: sorted(ad_files)
    idx,            \* load_ads: position in todo
    ads,            \* the list load_ads builds and the batch works on
    pos,            \* publish_ads / delete_ads: position in the batch (count)
    session,        \* "none", "created", "logged_in"
    loaded,         \* history: the files as they were when the run started
    examined,       \* history: the ad files the loop of load_ads has read
    skipped,        \* history: the ad files load_ads logged as SKIPPED
    validated,      \* history: the ad files that went through the ensure calls
    requests,       \* history: the ids of the delete requests sent
    published,      \* history: <<path, assigned id, time>> of every successful publish
    processed,      \* history: the paths the batch loop began to act on, in order
    writes,         \* history: path -> number of times the file was saved
    downloaded,     \* the ids of the ads saved below downloaded-ads/
    previous        \* history: what the run before this one published, <<>> if none

vars == <<command, ads_selector, delete_old_ads, config_file, config, categories, files,
          remote, now, pc, error, todo, idx, ads, pos, session, loaded, examined,
          skipped, validated, requests, published, processed, writes, downloaded,
          previous>>

args == <<command, ads_selector, delete_old_ads, config_file>>
loading == <<todo, idx, ads, examined, skipped, validated>>
browser == <<remote, session, requests, published, processed, pos>>
disk == <<files, loaded, writes, downloaded>>

Commands == {"verify", "publish", "delete", "download"}
\* --ads: the three keywords, or a list of ids
Selectors == {"all", "due", "new", "5"}

\* the ids the ad files carry
FileIds(fs) == {Val(fs[f]["id"]).n : f \in {g \in DOMAIN fs : "id" \in DOMAIN fs[g] /\ fs[g]["id"] # None}}

InitRun(fs, cfg) ==
    /\ config_file = cfg
    /\ config = None
    /\ categories = NoCategories
    /\ files = fs
    /\ loaded = fs
    /\ remote \in {FileIds(fs), {}}
    /\ now = StartTime
    /\ pc = "start"
    /\ error = ""
    /\ todo = <<>>
    /\ idx = 1
    /\ ads = <<>>
    /\ pos = 1
    /\ session = "none"
    /\ examined = {}
    /\ skipped = {}
    /\ validated = {}
    /\ requests = <<>>
    /\ published = <<>>
    /\ processed = <<>>
    /\ writes = [f \in AdPaths |-> 0]
    /\ downloaded = {}
    /\ previous = <<>>

\* runs over every combination of the ad definitions above, and runs whose
\* configuration lacks a login field or matches no ad file
Init ==
    /\ command \in Commands
    /\ ads_selector \in Selectors
    /\ delete_old_ads \in BOOLEAN
    /\ \/ \E fs \in [AdPaths -> RunAds] :
          \E cfg \in {ConfigPlain, ConfigRich} : InitRun(fs, cfg)
       \/ \E fs \in [AdPaths -> {BaseAd, RecentAd}] :
          \E cfg \in {ConfigNoAds, ConfigNoUser, ConfigNoPassword} : InitRun(fs, cfg)

\* d with the key k set to a[1], or without the key when a is the empty tuple
Given(d, k, a) == IF a = <<>> THEN d ELSE SetKey(d, k, a[1])

\* the timestamps of the runs that exercise the due rule: around whole days before
\* the start of the run, the epoch, and a time after the start
DueTimes ==
    {t \in {StartTime - Days(d) - r : d \in {0, 1, 2, 7, 8, 10}, r \in 0..(TicksPerDay - 1)} :
        t >= 0} \cup {StartTime + 1}

\* a valid ad with the given updated_on, created_on and republication_interval
DueAd(u, c, r) ==
    LET withU == IF u = -1 THEN BaseAd ELSE SetKey(BaseAd, "updated_on", Some(u))
        withC == IF c = -1 THEN withU ELSE SetKey(withU, "created_on", Some(c))
    IN IF r = -1 THEN withC ELSE SetKey(withC, "republication_interval", Some(r))

\* runs whose first ad file ranges over the timestamps and intervals (-1: not given)
InitDue ==
    /\ command \in Commands
    /\ ads_selector \in {"due", "all"}
    /\ delete_old_ads = TRUE
    /\ \E u \in DueTimes \cup {-1}, c \in DueTimes \cup {-1}, r \in {-1, 1} :
       \E rest \in {BaseAd, RecentAd} :
          InitRun([f \in AdPaths |-> IF f = 1 THEN DueAd(u, c, r) ELSE rest], ConfigPlain)

\* never published, with a republication_interval below zero: a truthy value, which
\* assert_has_value("republication_interval") accepts
NegativeIntervalAd == SetKey(BaseAd, "republication_interval", Some(-1))

\* runs over ads never published, published lately and of a negative interval, with
\* and without --keep-old
InitRepublish ==
    /\ command \in Commands
    /\ ads_selector \in Selectors
    /\ delete_old_ads \in BOOLEAN
    /\ \E fs \in [AdPaths -> {BaseAd, RecentAd, NegativeIntervalAd}] :
          InitRun(fs, ConfigPlain)

\* runs over active and inactive ads, under every command and selector
InitActive ==
    /\ command \in Commands
    /\ ads_selector \in Selectors
    /\ delete_old_ads = TRUE
    /\ \E fs \in [AdPaths -> {BaseAd, RecentAd, InactiveAd, InactiveOldAd}] :
          InitRun(fs, ConfigPlain)

\* an ad built field by field from values that keep or break each validation rule
RuleAd(type, title, description, price_type, price, shipping_type, contact_name, interval) ==
    Given(Given(Given(Given(Given(Given(Given(Given(
        [category |-> Some("Boote")],
        "type", type), "title", title), "description", description),
        "price_type", price_type), "price", price), "shipping_type", shipping_type),
        "contact_name", contact_name), "republication_interval", interval)

\* a field that is left out of the file, and one that is written in it
Absent == <<>>
Written(v) == <<v>>

\* a valid ad but for its price_type and price, as given
PriceAd(price_type, price) == Given(Given(BaseAd, "price_type", price_type), "price", price)

\* runs whose first ad file ranges over the price types and prices
InitPrice ==
    /\ command \in Commands
    /\ ads_selector \in {"all", "new"}
    /\ delete_old_ads = TRUE
    /\ \E price_type \in {Absent} \cup {Written(Some(p)) :
                                p \in {"FIXED", "NEGOTIABLE", "GIVE_AWAY", "NOT_APPLICABLE"}},
          price \in {Absent, Written(None), Written(Some("")), Written(Some("15"))} :
       \E rest \in {BaseAd, PriceAd(Written(Some("GIVE_AWAY")), Written(Some("15")))} :
          InitRun([f \in AdPaths |-> IF f = 1 THEN PriceAd(price_type, price) ELSE rest],
                  ConfigPlain)

\* runs whose ad files range over the categories: none, empty, a name of the bundled
\* table, a name of both tables, a name of the config's table only, and a code
InitCategory ==
    /\ command \in Commands
    /\ ads_selector \in {"all", "new"}
    /\ delete_old_ads = TRUE
    /\ \E category \in {Absent, Written(None)} \cup
                        {Written(Some(c)) : c \in {"", "Autos", "Notebooks", "Boote", "185"}} :
       \E rest \in {BaseAd, SetKey(BaseAd, "category", Some("185"))} :
       \E cfg \in {ConfigPlain, ConfigRich} :
          InitRun([f \in AdPaths |-> IF f = 1 THEN Given(BaseAd, "category", category)
                                     ELSE rest], cfg)

\* an ad whose fields with a default are left out, null, empty or given, with or
\* without a key that is no permitted field
MergeAd(type, description, contact_name, price, interval, active, note) ==
    Given(Given(Given(Given(Given(Given(Given(
        [title |-> Some("A valid ad title"), category |-> Some("Autos"),
         price_type |-> Some("NEGOTIABLE"), shipping_type |-> Some("")],
        "type", type), "description", description), "contact_name", contact_name),
        "price", price), "republication_interval", interval), "active", active),
        "note", note)

\* the ways a text field is written in an ad file
TextInputs(v) == {Absent, Written(None), Written(Some("")), Written(Some(v))}

\* runs whose first ad file ranges over the ways its fields are written
InitMerge ==
    /\ command \in Commands
    /\ ads_selector \in {"all", "new"}
    /\ delete_old_ads = TRUE
    /\ \E type \in TextInputs("WANTED"),
          description \in {Absent, Written(Some("")), Written(Some("Some text"))},
          contact_name \in {Absent, Written(Some("")), Written(Some("Bob"))},
          price \in {Absent, Written(Some(""))},
          interval \in {Absent, Written(None), Written(Some(3))},
          active \in {Absent, Written(Some(FALSE))},
          note \in {Absent, Written(Some("keep me"))} :
          InitRun([f \in AdPaths |->
                     IF f = 1
                     THEN MergeAd(type, description, contact_name, price, interval,
                                  active, note)
                     ELSE BaseAd], ConfigRich)

\* the image patterns, and the lists of at most MaxPatterns of them
ImagePatterns == {"*.jpg", "*.{jpg,PNG}", "b.PNG", "*", "*.gif"}
PatternLists == UNION {[1..n -> ImagePatterns] : n \in 0..MaxPatterns}

\* runs whose first ad file ranges over the lists of image patterns
InitImages ==
    /\ command \in Commands
    /\ ads_selector \in {"all", "new"}
    /\ delete_old_ads = TRUE
    /\ \E images \in {Absent, Written(None)} \cup {Written(Some(l)) : l \in PatternLists} :
       \E rest \in {BaseAd, SetKey(BaseAd, "images", Some(<<"*.gif">>))} :
          InitRun([f \in AdPaths |-> IF f = 1 THEN Given(BaseAd, "images", images) ELSE rest],
                  ConfigPlain)

\* runs whose first ad file ranges over the combinations of kept and broken rules
InitValidate ==
    /\ command \in Commands
    /\ ads_selector \in {"all", "new"}
    /\ delete_old_ads = TRUE
    /\ \E type \in {Absent, Written(Some("RENT"))},
          title \in {Written(Some("A valid ad title")), Written(Some("Too short")),
                     Written(None)},
          description \in {Written(Some("Some text")), Written(Some("")), Absent,
                           Written(Some(Rep("x", MaxDescriptionLen - 5))),
                           Written(Some(Rep("x", MaxDescriptionLen + 1)))},
          price_type \in {Written(Some("FIXED")), Written(Some("GIVE_AWAY")),
                          Written(Some("BAD"))},
          price \in {Written(Some("15")), Absent},
          shipping_type \in {Absent, Written(Some("BAD"))},
          contact_name \in {Written(Some("Bob")), Absent},
          interval \in {Absent, Written(Some(0))} :
       \E cfg \in {ConfigPlain, ConfigRich} :
          InitRun([f \in AdPaths |->
                     IF f = 1
                     THEN RuleAd(type, title, description, price_type, price,
                                 shipping_type, contact_name, interval)
                     ELSE BaseAd], cfg)

-----------------------------------------------------------------------------
(* run: load_config and load_ads *)

Fail(why) == pc' = "failed" /\ error' = why

\* run, case "download": a selector that is neither all nor new nor holds a digit
\* is replaced by new
DownloadSelector(selector) == IF selector \in {"all", "new"} \/ IsIdList(selector)
                              THEN selector ELSE "new"

\* (mutant) load_config without the check of the password
LoadConfigUsernameOnly ==
    /\ pc = "start"
    /\ ads_selector' = IF command = "download" THEN DownloadSelector(ads_selector)
                       ELSE ads_selector
    /\ config' = config_file
    /\ categories' = LoadCategories(config_file)
    /\ IF ~TruthyStr(config_file.login.username) THEN Fail("login.username")
       ELSE /\ pc' = IF command = "download" THEN "create_session" ELSE "load_ads"
            /\ error' = error
    /\ UNCHANGED <<command, delete_old_ads, config_file, previous, loading, browser, disk, now>>

\* run up to the end of load_config: the category table, then the two ensure calls on
\* the login; verify, publish and delete go on with load_ads, download with the browser
LoadConfig ==
    /\ pc = "start"
    /\ ads_selector' = IF command = "download" THEN DownloadSelector(ads_selector)
                       ELSE ads_selector
    /\ config' = config_file
    /\ categories' = LoadCategories(config_file)
    /\ IF ~TruthyStr(config_file.login.username) THEN Fail("login.username")
       ELSE IF ~TruthyStr(config_file.login.password) THEN Fail("login.password")
       ELSE /\ pc' = IF command = "download" THEN "create_session" ELSE "load_ads"
            /\ error' = error
    /\ UNCHANGED <<command, delete_old_ads, config_file, previous, loading, browser, disk, now>>

\* (mutant) publish and delete open the browser for an empty list too
AfterLoadAlwaysSession(result) ==
    IF command = "verify" THEN "done"
    ELSE IF command = "download" THEN "saved_ad_ids"
    ELSE "create_session"

\* where the caller of load_ads goes on with the list it returned: verify is done;
\* publish and delete open the browser only for a non-empty list; the download of
\* the new ads collects the ids of the list
AfterLoad(result) ==
    IF command = "verify" THEN "done"
    ELSE IF command = "download" THEN "saved_ad_ids"
    ELSE IF result # <<>> THEN "create_session"
    ELSE "done"

\* load_ads up to the loop: discovery; no ad file at all returns []
LoadAdsBegin ==
    /\ pc = "load_ads"
    /\ LET ad_files == DiscoverAdFiles(config.ad_files) IN
        /\ todo' = Sorted(ad_files)
        /\ pc' = IF ad_files = {} THEN AfterLoad(<<>>) ELSE "loading"
    /\ idx' = 1
    /\ ads' = <<>>
    /\ UNCHANGED <<args, previous, config, categories, browser, disk, now, error,
                   examined, skipped, validated>>

\* the publish, verify and delete commands call load_ads() with its defaults
IgnoreInactive == TRUE
CheckId == TRUE

\* the arguments of the call of load_ads in this run: the download of the new ads
\* passes ignore_inactive = False and check_id = False
PassedIgnoreInactive == IF command = "download" THEN FALSE ELSE IgnoreInactive
PassedCheckId == IF command = "download" THEN FALSE ELSE CheckId

\* (mutant) the ensure calls before the filters
LoadOutcomeValidateFirst(merged, described, selector, time, ignore_inactive, check_id) ==
    IF Validate(described) # "ok" THEN Validate(described)
    ELSE IF Skipped(merged, selector, time, ignore_inactive, check_id) THEN "skip"
    ELSE IF DueTypeError(merged, selector) THEN "TypeError"
    ELSE ImageFailure(described)

\* what the loop body of load_ads does with one ad: "skip" (continue), the ensure
\* or exception that ends the run, or "ok" (the ad is appended)
LoadOutcome(merged, described, selector, time, ignore_inactive, check_id) ==
    IF Skipped(merged, selector, time, ignore_inactive, check_id) THEN "skip"
    ELSE IF DueTypeError(merged, selector) THEN "TypeError"
    ELSE IF Validate(described) # "ok" THEN Validate(described)
    ELSE ImageFailure(described)

\* one iteration of the loop of load_ads
LoadAd ==
    /\ pc = "loading"
    /\ idx <= Len(todo)
    /\ LET ad_file == todo[idx]
           ad_cfg_orig == files[ad_file]
           merged == Merge(ad_cfg_orig, config)
           described == WithDescription(merged, config)
           ad_cfg == Derive(described, categories)
           outcome == LoadOutcome(merged, described, ads_selector, now,
                                  PassedIgnoreInactive, PassedCheckId)
       IN
        /\ examined' = examined \cup {ad_file}
        /\ skipped' = IF outcome = "skip" THEN skipped \cup {ad_file} ELSE skipped
        /\ validated' = IF outcome \in {"skip", "TypeError"} THEN validated
                        ELSE validated \cup {ad_file}
        /\ IF outcome = "skip"
           THEN idx' = idx + 1 /\ UNCHANGED <<ads, pc, error>>
           ELSE IF outcome = "ok"
           THEN /\ ads' = Append(ads, [ad_file |-> ad_file,
                                       ad_cfg |-> ad_cfg,
                                       ad_cfg_orig |-> LoadedOrig(ad_cfg_orig, ad_cfg)])
                /\ idx' = idx + 1
                /\ UNCHANGED <<pc, error>>
           ELSE Fail(outcome) /\ UNCHANGED <<ads, idx>>
    /\ UNCHANGED <<args, previous, config, categories, browser, disk, now, todo>>

\* load_ads returns ads; run goes on
LoadAdsReturn ==
    /\ pc = "loading"
    /\ idx > Len(todo)
    /\ pc' = AfterLoad(ads)
    /\ UNCHANGED <<args, previous, config, categories, loading, browser, disk, now, error>>

-----------------------------------------------------------------------------
(* run: the browser session *)

\* time passes while the browser starts
Tick ==
    /\ pc = "create_session"
    /\ now < StartTime + MaxTicks
    /\ now' = now + 1
    /\ UNCHANGED <<args, previous, config, categories, loading, browser, disk, pc, error>>

CreateSession ==
    /\ pc = "create_session"
    /\ session' = "created"
    /\ pc' = "login"
    /\ UNCHANGED <<args, previous, config, categories, loading, disk, now, error,
                   remote, requests, published, processed, pos>>

\* login, then the first iteration of publish_ads or delete_ads, or the download
Login ==
    /\ pc = "login"
    /\ session' = "logged_in"
    /\ pc' = CASE command = "publish" -> "check_limit"
               [] command = "delete" -> "delete_ad"
               [] command = "download" -> "download"
    /\ pos' = 1
    /\ UNCHANGED <<args, previous, config, categories, loading, disk, now, error,
                   remote, requests, published, processed>>

\* the web driver raises while the session is created or during login
SessionFails ==
    /\ pc \in {"create_session", "login"}
    /\ Fail("browser")
    /\ UNCHANGED <<args, previous, config, categories, loading, browser, disk, now>>

-----------------------------------------------------------------------------
(* delete_ad, publish_ad and the two batch loops *)

\* the id delete_ad puts in its request: none when ad_cfg carries no id
RequestIds(ad_cfg) == IF TruthyId(ad_cfg["id"]) THEN <<Val(ad_cfg["id"]).n>> ELSE <<>>

Range(s) == {s[i] : i \in 1..Len(s)}

\* an id the marketplace gives a new ad: one no ad has or had
FreshIds ==
    LET known == remote \cup FileIds(files) \cup Range(requests) \cup {0}
        top == CHOOSE m \in known : \A k \in known : k <= m
    IN {top + 1, top + 2}

\* the state of the batch when the loop moves on to the next ad, or ends
NextAd(first) ==
    /\ pos' = pos + 1
    /\ pc' = IF pos + 1 > Len(ads) THEN "done" ELSE first

\* (mutant) the old ad is deleted whether or not --keep-old was given
CheckLimitDeleteAlways ==
    /\ pc = "check_limit"
    /\ processed' = Append(processed, ads[pos].ad_file)
    /\ pc' = "delete_old"
    /\ UNCHANGED <<args, previous, config, categories, loading, disk, now, error,
                   remote, session, requests, published, pos>>

\* publish_ads reaches an ad; assert_free_ad_limit_not_reached finds no limit banner
CheckLimit ==
    /\ pc = "check_limit"
    /\ processed' = Append(processed, ads[pos].ad_file)
    /\ pc' = IF delete_old_ads THEN "delete_old" ELSE "fill_form"
    /\ UNCHANGED <<args, previous, config, categories, loading, disk, now, error,
                   remote, session, requests, published, pos>>

\* (mutant) the posting limit is logged for the ad and the batch goes on
LimitReachedGoesOn ==
    /\ pc = "check_limit"
    /\ processed' = Append(processed, ads[pos].ad_file)
    /\ error' = "limit"
    /\ NextAd("check_limit")
    /\ UNCHANGED <<args, previous, config, categories, loading, disk, now,
                   remote, session, requests, published>>

\* assert_free_ad_limit_not_reached raises AssertionError
LimitReached ==
    /\ pc = "check_limit"
    /\ processed' = Append(processed, ads[pos].ad_file)
    /\ Fail("limit")
    /\ UNCHANGED <<args, previous, config, categories, loading, disk, now,
                   remote, session, requests, published, pos>>

\* delete_ad(ad_cfg) as publish_ad calls it: the request, then ad_cfg["id"] = None
DeleteOld ==
    /\ pc = "delete_old"
    /\ requests' = requests \o RequestIds(ads[pos].ad_cfg)
    /\ remote' = remote \ Range(RequestIds(ads[pos].ad_cfg))
    /\ ads' = [ads EXCEPT ![pos].ad_cfg = ClearId(@)]
    /\ pc' = "fill_form"
    /\ UNCHANGED <<args, previous, config, categories, disk, now, error, todo, idx, examined,
                   skipped, validated, session, published, processed, pos>>

\* delete_ad raises: before the request, or on the response to it
DeleteOldFails ==
    /\ pc = "delete_old"
    /\ \E sent \in BOOLEAN :
        requests' = IF sent THEN requests \o RequestIds(ads[pos].ad_cfg) ELSE requests
    /\ Fail("browser")
    /\ UNCHANGED <<args, previous, config, categories, loading, disk, now,
                   remote, session, published, processed, pos>>

\* publish_ad from the form to save_dict: the ad goes online under a new id and
\* ad_cfg_orig, with id and timestamps, is written to the ad file
Submit ==
    /\ pc = "fill_form"
    /\ \E ad_id \in FreshIds :
        LET ad == ads[pos]
            orig == PublishedOrig(ad.ad_cfg, ad.ad_cfg_orig, now, ad_id)
        IN
        /\ remote' = remote \cup {ad_id}
        /\ ads' = [ads EXCEPT ![pos].ad_cfg_orig = orig]
        /\ files' = [files EXCEPT ![ad.ad_file] = orig]
        /\ writes' = [writes EXCEPT ![ad.ad_file] = @ + 1]
        /\ published' = Append(published, <<ad.ad_file, ad_id, now>>)
    /\ pc' = "await_checking"
    /\ UNCHANGED <<args, previous, config, categories, now, error, todo, idx, examined, skipped,
                   validated, session, requests, processed, pos, loaded, downloaded>>

\* (mutant) the ad file is saved before the confirmation page is awaited
SubmitFailsAfterSave ==
    /\ pc = "fill_form"
    /\ files' = [files EXCEPT ![ads[pos].ad_file] =
                    SetKey(ads[pos].ad_cfg_orig, "updated_on", Some(now))]
    /\ writes' = [writes EXCEPT ![ads[pos].ad_file] = @ + 1]
    /\ Fail("browser")
    /\ UNCHANGED <<args, previous, config, categories, loading, now, browser, loaded, downloaded>>

\* publish_ad raises between the form and the confirmation page; the ad may
\* have gone online all the same
SubmitFails ==
    /\ pc = "fill_form"
    /\ \E online \in BOOLEAN :
        remote' = IF online THEN remote \cup {CHOOSE i \in FreshIds : TRUE} ELSE remote
    /\ Fail("browser")
    /\ UNCHANGED <<args, previous, config, categories, loading, disk, now,
                   session, requests, published, processed, pos>>

\* publish_ads: web_await of "checking-done", then the next ad
AwaitCheckingDone ==
    /\ pc = "await_checking"
    /\ NextAd("check_limit")
    /\ UNCHANGED <<args, previous, config, categories, loading, disk, now, error,
                   remote, session, requests, published, processed>>

\* the web_await of publish_ads times out
AwaitFails ==
    /\ pc = "await_checking"
    /\ Fail("browser")
    /\ UNCHANGED <<args, previous, config, categories, loading, browser, disk, now>>

\* delete_ads: delete_ad(ad_cfg) on the ad at pos, then the next ad
DeleteAd ==
    /\ pc = "delete_ad"
    /\ processed' = Append(processed, ads[pos].ad_file)
    /\ requests' = requests \o RequestIds(ads[pos].ad_cfg)
    /\ remote' = remote \ Range(RequestIds(ads[pos].ad_cfg))
    /\ ads' = [ads EXCEPT ![pos].ad_cfg = ClearId(@)]
    /\ NextAd("delete_ad")
    /\ UNCHANGED <<args, previous, config, categories, disk, now, error, todo, idx, examined,
                   skipped, validated, session, published>>

\* (mutant) delete_ads logs the exception and goes on with the next ad
DeleteAdFailsLogged ==
    /\ pc = "delete_ad"
    /\ processed' = Append(processed, ads[pos].ad_file)
    /\ error' = "browser"
    /\ NextAd("delete_ad")
    /\ UNCHANGED <<args, previous, config, categories, loading, disk, now,
                   remote, session, published, requests>>

\* delete_ad raises in delete_ads
DeleteAdFails ==
    /\ pc = "delete_ad"
    /\ processed' = Append(processed, ads[pos].ad_file)
    /\ \E sent \in BOOLEAN :
        requests' = IF sent THEN requests \o RequestIds(ads[pos].ad_cfg) ELSE requests
    /\ Fail("browser")
    /\ UNCHANGED <<args, previous, config, categories, loading, disk, now,
                   remote, session, published, pos>>

-----------------------------------------------------------------------------
(* The following run *)

\* the time between the end of a run and the start of the following one: none, a
\* moment less than eight days, eight days
Elapsed == {0, Days(8) - 1, Days(8)}

\* the bot is started again, to publish the new or the due ads, after a run that has
\* published: it starts from the ad files as that run left them
NextRun ==
    /\ pc = "done" /\ command = "publish" /\ published # <<>>
    /\ previous = <<>>
    /\ previous' = published
    /\ ads_selector' \in {"new", "due"}
    /\ \E d \in Elapsed : now' = now + d
    /\ pc' = "start"
    /\ config' = None
    /\ categories' = NoCategories
    /\ loaded' = files
    /\ todo' = <<>> /\ idx' = 1 /\ ads' = <<>> /\ pos' = 1
    /\ session' = "none"
    /\ examined' = {} /\ skipped' = {} /\ validated' = {}
    /\ requests' = <<>> /\ published' = <<>> /\ processed' = <<>>
    /\ writes' = [f \in AdPaths |-> 0]
    /\ UNCHANGED <<command, delete_old_ads, config_file, files, remote, error, downloaded>>

-----------------------------------------------------------------------------
(* start_download_routine *)

\* int(ad_[2]['id']) raises for an ad file without the key id or with id: null
SavedIdFailure(ad_cfg_orig) ==
    IF "id" \notin DOMAIN ad_cfg_orig THEN "KeyError"
    ELSE IF ad_cfg_orig["id"] = None THEN "TypeError"
    ELSE "ok"

\* saved_ad_ids: the ids of the ads load_ads returned
SavedAdIds(list) == {Val(list[i].ad_cfg_orig["id"]).n : i \in 1..Len(list)}

\* start_download_routine with all or a list of ids: every ad of the overview, or
\* every id of the list that has an ad page, is saved below downloaded-ads/; with new
\* it first calls load_ads
StartDownload ==
    /\ pc = "download"
    /\ IF ads_selector = "new"
       THEN pc' = "load_ads" /\ UNCHANGED downloaded
       ELSE /\ downloaded' = IF ads_selector = "all" THEN remote
                             ELSE SelectorIds(ads_selector) \cap remote
            /\ pc' = "done"
    /\ UNCHANGED <<args, previous, config, categories, loading, browser, files, loaded, writes,
                   now, error>>

\* start_download_routine with new, after load_ads: the ids of the local ads, then
\* every ad of the overview whose id is not among them is saved
DownloadNew ==
    /\ pc = "saved_ad_ids"
    /\ IF \E i \in 1..Len(ads) : SavedIdFailure(ads[i].ad_cfg_orig) # "ok"
       THEN LET i == CHOOSE k \in 1..Len(ads) :
                        /\ SavedIdFailure(ads[k].ad_cfg_orig) # "ok"
                        /\ \A j \in 1..(k - 1) : SavedIdFailure(ads[j].ad_cfg_orig) = "ok"
            IN Fail(SavedIdFailure(ads[i].ad_cfg_orig)) /\ UNCHANGED downloaded
       ELSE /\ downloaded' = remote \ SavedAdIds(ads)
            /\ pc' = "done"
            /\ error' = error
    /\ UNCHANGED <<args, previous, config, categories, loading, browser, files, loaded, writes, now>>

\* the web driver raises during the download, after some of the ads were saved
DownloadFails ==
    /\ pc \in {"download", "saved_ad_ids"}
    /\ \E some \in SUBSET remote : downloaded' = some
    /\ Fail("browser")
    /\ UNCHANGED <<args, previous, config, categories, loading, browser, files, loaded, writes, now>>

Next ==
    \/ LoadConfig
    \/ LoadAdsBegin
    \/ LoadAd
    \/ LoadAdsReturn
    \/ Tick
    \/ CreateSession
    \/ Login
    \/ SessionFails
    \/ CheckLimit
    \/ LimitReached
    \/ DeleteOld
    \/ DeleteOldFails
    \/ Submit
    \/ SubmitFails
    \/ AwaitCheckingDone
    \/ AwaitFails
    \/ DeleteAd
    \/ DeleteAdFails
    \/ StartDownload
    \/ DownloadNew
    \/ DownloadFails
    \/ NextRun

Spec == Init /\ [][Next]_vars
\* the same program on the inputs of the due rule
SpecDue == InitDue /\ [][Next]_vars
\* the same program on the inputs of the validation rules
SpecValidate == InitValidate /\ [][Next]_vars
\* the same program on the inputs of the price rule
SpecPrice == InitPrice /\ [][Next]_vars
\* the same program on the inputs of the image resolution
SpecImages == InitImages /\ [][Next]_vars
\* the same program on the inputs of the category resolution
SpecCategory == InitCategory /\ [][Next]_vars
\* the same program on the inputs of the defaults merge
SpecMerge == InitMerge /\ [][Next]_vars
\* the same program on active and inactive ads
SpecActive == InitActive /\ [][Next]_vars

SpecRepublish == InitRepublish /\ [][Next]_vars

-----------------------------------------------------------------------------
(* Properties *)

\* d.get(k): None when the key is absent
Get(d, k) == IF k \in DOMAIN d THEN d[k] ELSE None

\* the resolved definition of the ad file f as the run started: defaults merged,
\* description composed
ResolvedAtLoad(f) == WithDescription(Merge(loaded[f], config_file), config_file)

\* the ad files load_ads let through its filters
Selected == examined \ skipped

\* the run is inside the loop of load_ads
InLoadAds == pc = "loading"

\* the position of the ad file f in the batch
BatchPos(f) == CHOOSE i \in 1..Len(ads) : ads[i].ad_file = f

\* C1: after a successful publish the ad file holds updated_on = now and the assigned
\* id, and created_on = now exactly when the file had neither created_on nor id before
\* the run (otherwise created_on is as it was), whatever delete_old_ads is.
C1_PublishMetadata ==
    \A i \in 1..Len(published) :
        LET f == published[i][1]
            ad_id == published[i][2]
            at == published[i][3]
            first == Get(loaded[f], "created_on") = None /\ Get(loaded[f], "id") = None
        IN /\ Get(files[f], "updated_on") = Some(at)
           /\ Get(files[f], "id") = Some(IdInt(ad_id))
           /\ Get(files[f], "created_on") =
                 IF first THEN Some(at) ELSE Get(loaded[f], "created_on")

\* C3 (as claimed): with a list of ids as selector, load_ads lets an ad through iff
\* its id is in the list.
HasIdIn(d, ids) == Get(d, "id") # None /\ Val(Get(d, "id")).n \in ids

C3_IdListFilters ==
    (InLoadAds /\ IsIdList(ads_selector)) =>
        \A f \in examined : f \in Selected <=> HasIdIn(loaded[f], SelectorIds(ads_selector))

\* C3 (amended): with a list of ids as selector, load_ads applies no filter on the id: it
\* lets through every active ad, as under the selector all, and the publish and delete
\* batch acts on ads whose id is not in the list.
C3_IdListIsAll ==
    /\ (InLoadAds /\ IsIdList(ads_selector)) =>
          \A f \in examined : f \in Selected <=> TruthyBool(ResolvedAtLoad(f)["active"])
    /\ IsIdList(ads_selector) =>
          \A i \in 1..Len(ads) : TruthyBool(ResolvedAtLoad(ads[i].ad_file)["active"])

C3_Witness ==
    /\ IsIdList(ads_selector)
    /\ \E i \in 1..Len(processed) :
          ~HasIdIn(loaded[processed[i]], SelectorIds(ads_selector))
    /\ \E f \in examined : HasIdIn(loaded[f], SelectorIds(ads_selector)) /\ f \in Selected

\* C4: after a successful delete action of the delete command, the ad file holds no id.
C4_DeleteClearsRawId ==
    (command = "delete" /\ pc \in {"delete_ad", "done"}) =>
        \A i \in 1..Len(processed) : Get(files[processed[i]], "id") = None

\* the ad files of the batch, in its order
BatchFiles == [i \in 1..Len(ads) |-> ads[i].ad_file]
BatchStarted == session = "logged_in" /\ processed # <<>>

\* C5 (as claimed): a failure other than the posting limit on one ad does not end the
\* batch: when the run has ended, every ad of the batch was processed.
C5_FailureDoesNotAbort ==
    (BatchStarted /\ error # "limit" /\ ~ENABLED Next) => processed = BatchFiles

\* C5 (amended): a failure while acting on one ad ends the batch and the run: the
\* ads were processed in order up to the failing one, no later ad is processed, and
\* nothing happens after the failure; without a failure every ad is processed, in order.
C5_FailureAborts ==
    /\ processed = SubSeq(BatchFiles, 1, Len(processed))
    /\ error # "" => pc = "failed" /\ ~ENABLED Next
    /\ (BatchStarted /\ pc = "failed") => Len(processed) = pos
    /\ (pc = "done" /\ session = "logged_in" /\ command \in {"publish", "delete"}) =>
          processed = BatchFiles

C5_Witness ==
    /\ pc = "failed" /\ error = "browser"
    /\ BatchStarted
    /\ Len(processed) < Len(ads)

-----------------------------------------------------------------------------
(* Properties of the selection and the validation *)

\* last_updated of a raw definition: updated_on if set, else created_on, else None
LastPublished(d) ==
    IF Get(d, "updated_on") # None THEN Get(d, "updated_on") ELSE Get(d, "created_on")

\* C2: under the selector due an active ad is let through iff it has neither timestamp
\* or the whole days since last_updated exceed republication_interval, that is, at
\* least republication_interval + 1 full days have passed.
C2_DueSelection ==
    (InLoadAds /\ ads_selector = "due") =>
        \A f \in examined :
            LET ad == ResolvedAtLoad(f)
                last == LastPublished(loaded[f])
                interval == ad["republication_interval"]
            IN (TruthyBool(ad["active"]) /\ interval # None) =>
                  (f \in Selected <=>
                      \/ last = None
                      \/ now - Val(last) >= (Val(interval) + 1) * TicksPerDay)

\* an ad published exactly interval + 1 days ago was let through, and one published
\* exactly interval days ago was skipped
C2_Witness ==
    /\ InLoadAds /\ ads_selector = "due"
    /\ \E f \in Selected :
          /\ LastPublished(loaded[f]) # None
          /\ now - Val(LastPublished(loaded[f])) =
                (Val(ResolvedAtLoad(f)["republication_interval"]) + 1) * TicksPerDay
    /\ \E f \in skipped :
          /\ LastPublished(loaded[f]) # None
          /\ now - Val(LastPublished(loaded[f])) =
                Val(ResolvedAtLoad(f)["republication_interval"]) * TicksPerDay

RuleNames == {"description_length", "type", "title", "description", "price_type", "price",
              "shipping_type", "contact.name", "republication_interval"}

\* the resolved ad breaks the rule
Breaks(rule, ad) ==
    CASE rule = "description_length" -> Len(Val(ad["description"])) > MaxDescriptionLen
      [] rule = "type" -> ad["type"] # Some("OFFER") /\ ad["type"] # Some("WANTED")
      [] rule = "title" -> ad["title"] = None \/ Len(Val(ad["title"])) < MinTitleLen
      [] rule = "description" -> ad["description"] = None \/ ad["description"] = Some("")
      [] rule = "price_type" ->
            ad["price_type"] \notin {Some("FIXED"), Some("NEGOTIABLE"), Some("GIVE_AWAY"),
                                     Some("NOT_APPLICABLE")}
      [] rule = "price" ->
            \/ ad["price_type"] = Some("GIVE_AWAY") /\ ad["price"] \notin {None, Some("")}
            \/ ad["price_type"] = Some("FIXED") /\ ad["price"] \in {None, Some("")}
      [] rule = "shipping_type" ->
            ad["shipping_type"] \notin {Some("PICKUP"), Some("SHIPPING"), Some("NOT_APPLICABLE")}
      [] rule = "contact.name" -> ad["contact_name"] \in {None, Some("")}
      [] rule = "republication_interval" ->
            ad["republication_interval"] \in {None, Some(0)}

BreaksSome(rules, ad) == \E r \in rules : Breaks(r, ad)
BreaksARule(ad) == BreaksSome(RuleNames, ad)

\* the rules in the order the claim gives, the two rules on the description third
ClaimedOrder ==
    <<{"type"}, {"title"}, {"description", "description_length"}, {"price_type"}, {"price"},
      {"shipping_type"}, {"contact.name"}, {"republication_interval"}>>

\* the order with the length of the description first
LengthFirstOrder ==
    <<{"description_length"}, {"type"}, {"title"}, {"description"}, {"price_type"}, {"price"},
      {"shipping_type"}, {"contact.name"}, {"republication_interval"}>>

\* the run ended on a validation failure (of the ad file at todo[idx])
ValidationFailed == pc = "failed" /\ error \in RuleNames

\* a validation failure is the failure of the first broken rule of the order
FailsOnFirstOf(order) ==
    ValidationFailed =>
        LET ad == ResolvedAtLoad(todo[idx])
            first == CHOOSE i \in 1..Len(order) :
                        /\ BreaksSome(order[i], ad)
                        /\ \A j \in 1..(i - 1) : ~BreaksSome(order[j], ad)
        IN BreaksARule(ad) /\ error \in order[first]

\* C6 (as claimed): validation fails on the first broken rule in the order type, title,
\* description (non-empty and at most 4000 characters), price_type, price, shipping_type,
\* contact.name, republication_interval.
C6_ClaimedRuleOrder == FailsOnFirstOf(ClaimedOrder)

\* C6 (amended): validation fails on the first broken rule in the order description at
\* most 4000 characters, type, title, description non-empty, price_type, price,
\* shipping_type, contact.name, republication_interval.
C6_LengthFirstRuleOrder == FailsOnFirstOf(LengthFirstOrder)

\* an ad with an invalid type and an over-long description failed on the description
C6_Witness ==
    /\ ValidationFailed
    /\ error = "description_length"
    /\ Breaks("type", ResolvedAtLoad(todo[idx]))
    /\ Breaks("title", ResolvedAtLoad(todo[idx]))

-----------------------------------------------------------------------------
(* Properties of the order of the steps and of what reaches the ad files *)

\* load_ads has returned its list to run
LoadReturned == pc \notin {"start", "load_ads", "loading", "failed"}

\* C7 (as claimed): every discovered ad definition is validated before the selection
\* filters it, so a run that gets past load_ads has no definition that breaks a rule.
C7_AllDiscoveredValidated ==
    LoadReturned => \A f \in examined : ~BreaksARule(ResolvedAtLoad(f))

\* C7 (amended): an ad definition is validated after the defaults merge and only once
\* the selection filters have let it through: a schema violation fails the run iff the
\* ad is selected (active, and new or due under the run selector); a violation in a
\* filtered-out definition is not noticed, in a verify run too.
C7_ValidatedAfterSelection ==
    /\ validated \cap skipped = {}
    /\ validated \cup skipped \subseteq examined
    /\ LoadReturned => \A f \in Selected : ~BreaksARule(ResolvedAtLoad(f))
    /\ ValidationFailed =>
          /\ todo[idx] \in validated
          /\ ~Skipped(Merge(loaded[todo[idx]], config_file), ads_selector, now,
                      PassedIgnoreInactive, PassedCheckId)

\* a verify run ended without error although a skipped definition breaks a rule
C7_Witness ==
    /\ pc = "done" /\ command = "verify" /\ error = ""
    /\ \E f \in skipped : BreaksARule(ResolvedAtLoad(f))
    /\ \E f \in validated : TRUE

ManagedFields == {"id", "created_on", "updated_on"}

\* the two mappings hold the same keys and values outside the managed fields
SameUserFields(before, after) ==
    /\ DOMAIN after \ ManagedFields = DOMAIN before \ ManagedFields
    /\ \A k \in DOMAIN before \ ManagedFields : after[k] = before[k]

\* C8: an ad file differs from what was loaded in id, created_on and updated_on only;
\* no key or value of the resolved definition reaches the file.
C8_OnlyManagedFieldsChange ==
    \A f \in AdPaths : SameUserFields(loaded[f], files[f])

\* a published ad whose resolved definition has default-filled keys and a composed
\* description, a category code, normalized shipping costs, an integer id and image
\* paths that all differ from the file's
C8_Witness ==
    \E i \in 1..Len(published) :
        LET f == published[i][1]
            ad == ads[BatchPos(f)]
        IN /\ files[f] # loaded[f]
           /\ DOMAIN ad.ad_cfg # DOMAIN loaded[f]
           /\ \A k \in {"description", "category", "shipping_costs", "images"} :
                 ad.ad_cfg[k] # loaded[f][k]
           /\ Get(loaded[f], "id") = Some(IdStr(6))
           /\ "type" \in DOMAIN loaded[f] /\ ad.ad_cfg["type"] # loaded[f]["type"]

\* how often the ad file f was published in this run
TimesPublished(f) == Cardinality({i \in 1..Len(published) : published[i][1] = f})

Reached == {todo[i] : i \in 1..(IF idx <= Len(todo) THEN idx ELSE Len(todo))}

-----------------------------------------------------------------------------
(* Properties of the posting limit *)

\* the ad files published in this run
PublishedFiles == {published[i][1] : i \in 1..Len(published)}

\* C11: when the posting limit is detected at the k-th ad of a batch the run ends there:
\* the k-th ad and every later ad are not published and their files are as loaded, and
\* the k - 1 ads before it are published and their files hold the id and the time
\* that were persisted for them.
C11_LimitAbortsBatch ==
    error = "limit" =>
        /\ pc = "failed" /\ ~ENABLED Next
        /\ command = "publish" /\ pos \in 1..Len(ads)
        /\ Len(processed) = pos
        /\ \A i \in pos..Len(ads) :
              /\ ads[i].ad_file \notin PublishedFiles
              /\ writes[ads[i].ad_file] = 0
              /\ files[ads[i].ad_file] = loaded[ads[i].ad_file]
        /\ Len(published) = pos - 1
        /\ \A i \in 1..(pos - 1) :
              /\ published[i][1] = ads[i].ad_file
              /\ writes[ads[i].ad_file] = 1
              /\ files[ads[i].ad_file] = ads[i].ad_cfg_orig
              /\ Get(files[ads[i].ad_file], "id") = Some(IdInt(published[i][2]))
              /\ Get(files[ads[i].ad_file], "updated_on") = Some(published[i][3])

\* the limit was detected at the second ad, after the first was published and saved
C11_Witness ==
    /\ error = "limit"
    /\ pos = 2
    /\ Len(published) = 1
    /\ files[ads[1].ad_file] # loaded[ads[1].ad_file]
    /\ files[ads[2].ad_file] = loaded[ads[2].ad_file]

-----------------------------------------------------------------------------
(* Properties of the order of the selection *)

\* the sequence of paths is in ascending order of path, without repetition
Ascending(s) == \A i, j \in 1..Len(s) : i < j => s[i] < s[j]

\* load_config has failed on a login field
ConfigFailed == pc = "failed" /\ error \in {"login.username", "login.password"}

\* load_ads has searched for the ad files
DiscoveryDone ==
    \/ command # "download" /\ pc \notin {"start", "load_ads"} /\ ~ConfigFailed
    \/ pc \in {"loading", "saved_ad_ids"}

\* C12: the list load_ads builds is a subsequence of the discovered ad files sorted by
\* path: each discovered file is examined once, in ascending order, the list holds
\* exactly the files let through so far, in that order and each once (also a file that
\* matches several ad_files patterns), loading changes no file, and publish_ads and
\* delete_ads act on the ads of the list one at a time in its order.
C12_OrderPreservingSelection ==
    /\ Ascending(todo) /\ Ascending(BatchFiles)
    /\ DiscoveryDone =>
          /\ Range(todo) = DiscoverAdFiles(config.ad_files)
          /\ Range(BatchFiles) \subseteq Selected
    /\ InLoadAds =>
          /\ examined = {todo[i] : i \in 1..(idx - 1)}
          /\ Range(BatchFiles) = Selected
          /\ files = loaded
    /\ LoadReturned => Range(BatchFiles) = Selected /\ examined = Range(todo)
    /\ processed = SubSeq(BatchFiles, 1, Len(processed))
    /\ session = "logged_in" => Len(processed) \in {pos - 1, pos}
    /\ (command = "publish" /\ session = "logged_in") =>
          /\ Len(published) \in {Len(processed) - 1, Len(processed)}
          /\ \A i \in 1..Len(published) : published[i][1] = BatchFiles[i]

\* the first ad file matches two ad_files patterns; it is once in the list, before
\* the second, and the batch has acted on both in that order
C12_Witness ==
    /\ config_file = ConfigRich
    /\ 1 \in AdGlob(config_file.ad_files[1]) \cap AdGlob(config_file.ad_files[2])
    /\ pc = "done"
    /\ Len(ads) >= 2
    /\ processed = BatchFiles
    /\ processed[1] = 1

-----------------------------------------------------------------------------
(* Properties of the selectors new and all *)

\* the ad file f carries an id that counts as one (not null, not 0)
CarriesId(f) == TruthyId(ResolvedAtLoad(f)["id"])

\* C13 (as claimed): under the selector new, load_ads never lets through an ad that
\* carries an id, whatever its timestamps and interval are, and lets through every
\* active ad without id.
C13_NewExcludesIds ==
    (InLoadAds /\ ads_selector = "new") =>
        \A f \in examined :
            /\ CarriesId(f) => f \notin Selected
            /\ (TruthyBool(ResolvedAtLoad(f)["active"]) /\ ~CarriesId(f)) => f \in Selected

\* C13 (amended): under the selector new, load_ads called with check_id = True (verify,
\* publish, delete) never lets through an ad that carries an id, whatever its
\* timestamps and interval are, and lets through every active ad without id; called
\* with check_id = False (the download of the new ads) it lets through the ads that
\* carry an id as well.
C13_NewExcludesIdsIfChecked ==
    (InLoadAds /\ ads_selector = "new") =>
        \A f \in examined :
            /\ (CarriesId(f) /\ PassedCheckId) => f \notin Selected
            /\ (TruthyBool(ResolvedAtLoad(f)["active"]) /\ ~CarriesId(f)) => f \in Selected
            /\ ~PassedCheckId =>
                  (f \in Selected <=>
                      ~PassedIgnoreInactive \/ TruthyBool(ResolvedAtLoad(f)["active"]))

\* a publish run under new skipped an ad that carries an id and is due by its
\* timestamp, and let through an ad without id
C13_Witness ==
    /\ InLoadAds /\ ads_selector = "new" /\ command = "publish"
    /\ \E f \in skipped :
          /\ CarriesId(f)
          /\ LastPublished(loaded[f]) # None
          /\ now - Val(LastPublished(loaded[f])) >= Days(8)
    /\ \E f \in Selected : ~CarriesId(f)

\* the ad file f is inactive once the defaults are merged
Inactive(f) == ~TruthyBool(ResolvedAtLoad(f)["active"])

\* f as load_ads would treat it if it were active
SkippedIfActive(f) ==
    Skipped(SetKey(Merge(loaded[f], config_file), "active", Some(TRUE)), ads_selector, now,
            PassedIgnoreInactive, PassedCheckId)

\* C14: load_ads called with its default ignore_inactive = True skips every inactive
\* ad under every selector, so its list holds active ads only; called with
\* ignore_inactive = False it treats an inactive ad as it would the same ad if active.
C14_InactiveExcluded ==
    /\ PassedIgnoreInactive =>
          /\ \A f \in examined : Inactive(f) => f \in skipped
          /\ \A i \in 1..Len(ads) : ~Inactive(ads[i].ad_file)
    /\ (~PassedIgnoreInactive /\ InLoadAds) =>
          \A f \in examined : Inactive(f) => (f \in skipped <=> SkippedIfActive(f))
    /\ (~PassedIgnoreInactive /\ pc = "saved_ad_ids") =>
          \A f \in examined : Inactive(f) => f \in Range(BatchFiles)

\* under a list of ids that names its id, an inactive ad that is also due was
\* skipped by a delete run whose list holds the other, active ad
C14_Witness ==
    /\ command = "delete" /\ ads_selector = "5" /\ pc = "done"
    /\ \E f \in skipped :
          Inactive(f) /\ HasIdIn(loaded[f], SelectorIds(ads_selector)) /\ ~SkippedIfActive(f)
    /\ Len(ads) = 1

-----------------------------------------------------------------------------
(* Properties of the price rule *)

PriceGiven(ad) == ad["price"] # None /\ ad["price"] # Some("")

\* C15: for an ad that keeps every other rule, validation fails (on the price) iff its
\* price_type is GIVE_AWAY and a price is given, or its price_type is FIXED and no
\* price is given; with NEGOTIABLE and NOT_APPLICABLE it never fails.
C15_PriceRule ==
    \A f \in validated :
        LET ad == ResolvedAtLoad(f)
            failed == ValidationFailed /\ todo[idx] = f
        IN ~BreaksSome(RuleNames \ {"price"}, ad) =>
              /\ failed => error = "price"
              /\ ad["price_type"] = Some("GIVE_AWAY") => (failed <=> PriceGiven(ad))
              /\ ad["price_type"] = Some("FIXED") => (failed <=> ~PriceGiven(ad))
              /\ ad["price_type"] \in {Some("NEGOTIABLE"), Some("NOT_APPLICABLE")} => ~failed

\* a FIXED ad with a price passed, and then a GIVE_AWAY ad with a price failed
C15_Witness ==
    /\ ValidationFailed /\ error = "price" /\ idx = 2
    /\ ResolvedAtLoad(todo[2])["price_type"] = Some("GIVE_AWAY")
    /\ PriceGiven(ResolvedAtLoad(todo[2]))
    /\ ResolvedAtLoad(todo[1])["price_type"] = Some("FIXED")
    /\ todo[1] \in validated

-----------------------------------------------------------------------------
(* Properties of the configuration *)

\* the configuration file gives no username, or no password
LoginMissing ==
    \/ config_file.login.username \in {None, Some("")}
    \/ config_file.login.password \in {None, Some("")}

\* C16: with a missing login.username or login.password every command (verify, publish,
\* delete, download) ends in load_config: no ad file is searched for or read, no
\* browser session is created, nothing is published, deleted or downloaded and no
\* file is written.
C16_MissingLoginAborts ==
    /\ (LoginMissing /\ pc # "start") => ConfigFailed
    /\ ConfigFailed =>
          /\ LoginMissing
          /\ todo = <<>> /\ examined = {} /\ ads = <<>>
          /\ session = "none"
          /\ requests = <<>> /\ published = <<>> /\ processed = <<>> /\ downloaded = {}
          /\ files = loaded /\ \A f \in AdPaths : writes[f] = 0
          /\ ~ENABLED Next

\* a download run ended in load_config for want of a password
C16_Witness ==
    /\ ConfigFailed
    /\ command = "download"
    /\ error = "login.password"
    /\ DiscoverAdFiles(config_file.ad_files) # {}

-----------------------------------------------------------------------------
(* Properties of the empty selection *)

\* the run is a publish or delete run whose load_ads has returned
BatchLoadReturned == command \in {"publish", "delete"} /\ LoadReturned

\* C17: a publish or delete run whose load_ads found no ad file, or let no ad through
\* its filters, ends normally: the list is empty, there is no error, no browser
\* session, no login, no publish or delete and no file write; and load_ads itself
\* fails only on an ad that its filters did not skip.
C17_EmptySelectionIsNoError ==
    /\ (BatchLoadReturned /\ Selected = {}) =>
          /\ ads = <<>>
          /\ pc = "done" /\ error = "" /\ ~ENABLED Next
          /\ session = "none"
          /\ requests = <<>> /\ published = <<>> /\ processed = <<>>
          /\ files = loaded /\ \A f \in AdPaths : writes[f] = 0
    /\ (command \in {"publish", "delete"} /\ pc = "failed" /\ ~ConfigFailed) =>
          Selected # {}
    /\ (BatchLoadReturned /\ Selected # {}) => ads # <<>>

\* a publish run found ad files, skipped every one of them, and is done
C17_Witness ==
    /\ command = "publish" /\ pc = "done" /\ error = ""
    /\ examined # {} /\ examined = Range(todo) /\ skipped = examined
    /\ session = "none"

-----------------------------------------------------------------------------
(* Properties of the image resolution *)

\* the image patterns the ad file f gives, <<>> when it gives none
PatternsOf(f) == IF Get(loaded[f], "images") = None THEN <<>> ELSE Val(loaded[f]["images"])

\* the absolute paths the k-th pattern of f matches
MatchesOf(f, k) == {AbsImage(m) : m \in Glob(PatternsOf(f)[k])}
AllMatchesOf(f) == UNION {MatchesOf(f, k) : k \in 1..Len(PatternsOf(f))}

\* the first pattern of f that matches the path x
FirstPattern(f, x) ==
    CHOOSE k \in 1..Len(PatternsOf(f)) :
        x \in MatchesOf(f, k) /\ \A j \in 1..(k - 1) : x \notin MatchesOf(f, j)

\* the rank of the path x in the lexicographic order of the paths
LexRank(x) == CHOOSE r \in 1..Len(ImageFiles) : AbsImage(ImageFiles[r]) = x

\* C18: the image list of a loaded ad holds every matched path exactly once, ordered by
\* the first pattern that matches the path and, among the paths of one pattern,
\* lexicographically: a path matched by an earlier and a later pattern sits where the
\* earlier pattern puts it.
C18_ImageListOrder ==
    \A i \in 1..Len(ads) :
        LET f == ads[i].ad_file
            images == Val(ads[i].ad_cfg["images"])
        IN PatternsOf(f) # <<>> =>
              /\ Range(images) = AllMatchesOf(f)
              /\ Len(images) = Cardinality(AllMatchesOf(f))
              /\ \A a, b \in 1..Len(images) :
                    a < b =>
                       \/ FirstPattern(f, images[a]) < FirstPattern(f, images[b])
                       \/ /\ FirstPattern(f, images[a]) = FirstPattern(f, images[b])
                          /\ LexRank(images[a]) < LexRank(images[b])

\* b.PNG, matched by the first pattern and again by the second, comes before a.jpg
C18_Witness ==
    \E i \in 1..Len(ads) :
        /\ PatternsOf(ads[i].ad_file) = <<"b.PNG", "*.{jpg,PNG}">>
        /\ ads[i].ad_cfg["images"] = Some(<<AbsImage("b.PNG"), AbsImage("a.jpg")>>)

\* the files whose extension is gif, jpg, jpeg or png in any letter case
SupportedImages == {AbsImage("a.jpg"), AbsImage("b.PNG")}

\* the run ended on an image check (of the ad file at todo[idx])
ImagesFailed == pc = "failed" /\ error \in {"image_type", "no_images"}

\* C19: for an ad with a non-empty list of image patterns that keeps the validation
\* rules, load_ads returns the ad iff every matched file has a supported extension
\* (in any letter case) and at least one file is matched; otherwise the run ends
\* with an error at that ad and the ad is not in the list.
C19_ImageResolutionSucceeds ==
    \A f \in validated :
        LET expected == AllMatchesOf(f) \subseteq SupportedImages /\ AllMatchesOf(f) # {}
        IN (PatternsOf(f) # <<>> /\ ~BreaksARule(ResolvedAtLoad(f))) =>
              /\ expected <=> f \in Range(BatchFiles)
              /\ ~expected <=> (ImagesFailed /\ todo[idx] = f)
              /\ (ImagesFailed /\ todo[idx] = f) => ~ENABLED Next

\* the first ad, whose only image is b.PNG, is in the list; the second, whose
\* pattern matches nothing, ended the run
C19_Witness ==
    /\ ImagesFailed /\ error = "no_images" /\ idx = 2
    /\ Len(ads) = 1
    /\ PatternsOf(ads[1].ad_file) = <<"b.PNG">>
    /\ PatternsOf(todo[2]) # <<>>

-----------------------------------------------------------------------------
(* Properties of the category resolution *)

\* the code the claim gives for the category c under the configuration cfg
ExpectedCategory(c, cfg) ==
    IF c \in DOMAIN cfg.categories THEN cfg.categories[c]
    ELSE IF c \in DOMAIN BundledCategories THEN BundledCategories[c]
    ELSE c

\* C20: the category of a loaded ad is the code the config's table maps it to, else
\* the code the bundled table maps it to, else the category as given; the resolution
\* never fails: an ad that keeps the validation rules and the image checks is loaded
\* whatever its category is.
C20_CategoryResolution ==
    /\ \A i \in 1..Len(ads) :
          LET given == Get(loaded[ads[i].ad_file], "category")
          IN ads[i].ad_cfg["category"] =
                IF TruthyStr(given) THEN Some(ExpectedCategory(Val(given), config_file))
                ELSE given
    /\ \A f \in validated :
          (~BreaksARule(ResolvedAtLoad(f)) /\ ImageFailure(ResolvedAtLoad(f)) = "ok") =>
              f \in Range(BatchFiles)

\* Autos, a name of both tables, got the config's code; 185, a name of neither, is
\* as given
C20_Witness ==
    /\ Len(ads) = 2
    /\ "Autos" \in DOMAIN config_file.categories \cap DOMAIN BundledCategories
    /\ config_file.categories["Autos"] # BundledCategories["Autos"]
    /\ Get(loaded[ads[1].ad_file], "category") = Some("Autos")
    /\ ads[1].ad_cfg["category"] = Some(config_file.categories["Autos"])
    /\ Get(loaded[ads[2].ad_file], "category") = Some("185")
    /\ ads[2].ad_cfg["category"] = Some("185")

-----------------------------------------------------------------------------
(* Properties of the defaults merge *)

\* the merged definition of the ad file f
MergedAtLoad(f) == Merge(loaded[f], config_file)

\* C21: for every ad file load_ads has read, merging the merged definition again
\* against the same two layers gives the merged definition, and the merged (and the
\* loaded) definition has every key of the file.
C21_MergeIdempotent ==
    /\ \A f \in examined :
          /\ Merge(MergedAtLoad(f), config_file) = MergedAtLoad(f)
          /\ DOMAIN loaded[f] \subseteq DOMAIN MergedAtLoad(f)
    /\ \A i \in 1..Len(ads) :
          DOMAIN loaded[ads[i].ad_file] \subseteq DOMAIN ads[i].ad_cfg

\* a loaded ad whose file gives an empty type (replaced by the default), an empty
\* shipping_type, no contact name (filled by the empty default), no interval, and a
\* key that is no permitted field
C21_Witness ==
    \E i \in 1..Len(ads) :
        LET raw == loaded[ads[i].ad_file]
        IN /\ Get(raw, "type") = Some("") /\ ads[i].ad_cfg["type"] = Some("OFFER")
           /\ "republication_interval" \notin DOMAIN raw
           /\ ads[i].ad_cfg["republication_interval"] = Some(7)
           /\ "note" \in DOMAIN raw /\ "note" \notin AdFieldNames
           /\ "id" \notin DOMAIN raw /\ ads[i].ad_cfg["id"] = None


-----------------------------------------------------------------------------
(* C22: the run that follows a persisted publish *)

\* the ad files the run before this one published
PreviousFiles == {previous[i][1] : i \in 1..Len(previous)}

\* the time the run before this one published the ad file at
PublishedAt(f) == previous[CHOOSE i \in 1..Len(previous) : previous[i][1] = f][3]

\* in this run the ad file was published in, no time after the run before published it
RepublishedAtOnce(f) ==
    f \in PreviousFiles /\ f \in PublishedFiles /\ now = PublishedAt(f)

\* the part of the claim on what the following run selects: under new the ad is
\* skipped, under due it is let through only when more than its interval of whole
\* days have passed since the publish
FollowingRunSelection ==
    \A f \in PreviousFiles \cap examined :
        LET interval == ResolvedAtLoad(f)["republication_interval"] IN
        /\ HasIdIn(loaded[f], {previous[i][2] : i \in 1..Len(previous)})
        /\ Get(loaded[f], "updated_on") = Some(PublishedAt(f))
        /\ ads_selector = "new" => f \in skipped
        /\ (ads_selector = "due" /\ interval # None) =>
              (f \in Selected => AgeDays(now, PublishedAt(f)) > Val(interval))
        /\ (ads_selector = "due" /\ interval # None /\ InLoadAds) =>
              (AgeDays(now, PublishedAt(f)) > Val(interval) => f \in Selected)

\* C22 (as stated): after a persisted publish the following run does not select the
\* ad under new, and under due selects it only when more than republication_interval
\* whole days have passed since the publish; so a following new or due run with no
\* time elapsed never publishes the ad again.
C22_NeverPublishedTwice ==
    /\ FollowingRunSelection
    /\ \A f \in AdPaths : ~RepublishedAtOnce(f)

\* C22 (amended): the same selection; a following new or due run with no time elapsed
\* does not publish the ad again unless its republication_interval is negative.
C22_NotPublishedTwiceUnlessNegative ==
    /\ FollowingRunSelection
    /\ \A f \in AdPaths :
          RepublishedAtOnce(f) =>
              /\ ads_selector = "due"
              /\ Val(ResolvedAtLoad(f)["republication_interval"]) < 0

\* a following due run a moment less than eight days later has skipped an ad of the
\* interval 7 that the run before published, and a following run with no time elapsed
\* has ended without publishing what the run before published
C22_Witness ==
    /\ previous # <<>> /\ pc = "done"
    /\ \E f \in PreviousFiles :
          /\ ResolvedAtLoad(f)["republication_interval"] = Some(7)
          /\ \/ /\ ads_selector = "due" /\ f \in skipped
                /\ now - PublishedAt(f) = Days(8) - 1
             \/ /\ now = PublishedAt(f) /\ f \in examined /\ f \notin PublishedFiles
                /\ PublishedFiles # {}


-----------------------------------------------------------------------------
(* C23: the posting limit is checked before the old ad is deleted *)

\* publish_ad has raised on the posting limit for the ad at pos
LimitHit == command = "publish" /\ pc = "failed" /\ error = "limit"

\* the ads of the batch before position p that carried an id when they were loaded
CarriedIdBefore(p) == {i \in 1..(p - 1) : CarriesId(ads[i].ad_file)}

\* C23: when the posting limit is reached for an ad, the delete requests of the run
\* are those of the ads before it only (none with --keep-old): none was issued for
\* that ad, which still carries its id; and
\* with delete_old_ads = FALSE a publish run issues no delete request at all.
C23_LimitCheckedBeforeDelete ==
    /\ LimitHit =>
          LET ad == ads[pos]
              id == ResolvedAtLoad(ad.ad_file)["id"]
          IN
          /\ Len(requests) = IF delete_old_ads THEN Cardinality(CarriedIdBefore(pos)) ELSE 0
          /\ ad.ad_cfg["id"] = IF TruthyId(id) THEN IntOfId(id) ELSE id
          /\ (TruthyId(id) /\ \A i \in CarriedIdBefore(pos) :
                                  Val(ResolvedAtLoad(ads[i].ad_file)["id"]).n # Val(id).n) =>
                 Val(id).n \notin Range(requests)
    /\ (command = "publish" /\ ~delete_old_ads) => requests = <<>>

\* the limit was reached for the second ad of a batch, after the old copy of the
\* first was deleted: the second ad, which carries another id, is online still
C23_Witness ==
    /\ LimitHit /\ delete_old_ads /\ pos = 2
    /\ requests # <<>>
    /\ CarriesId(ads[pos].ad_file)
    /\ Val(ads[pos].ad_cfg["id"]).n \in remote \ Range(requests)


-----------------------------------------------------------------------------
(* C24: download with the selector new *)

\* start_download_routine raised while it collected the ids of the local ads, after
\* load_ads had returned them
SavedAdIdsFailed ==
    /\ command = "download" /\ pc = "failed" /\ idx > Len(todo)
    /\ error \in {"KeyError", "TypeError"}

\* the ids the ad files that ad_files matches hold
LocalIds == {Val(files[f]["id"]).n : f \in {g \in Range(todo) : Get(files[g], "id") # None}}

\* C24: download with the selector new completes whatever the local ad definitions
\* are (a definition without an id is not counted as saved) and saves exactly the
\* remote ads whose id no local definition holds.
C24_DownloadNewCompletes ==
    (command = "download" /\ ads_selector = "new") =>
        /\ ~SavedAdIdsFailed
        /\ pc = "done" => downloaded = remote \ LocalIds


-----------------------------------------------------------------------------
(* C25: what the delete command deletes *)

\* the delete command has ended without an error
DeleteCompleted == command = "delete" /\ pc = "done"

\* C25: the delete command issues a delete for every active local ad that carries an
\* id, whatever its timestamps and republication_interval are: also under the default
\* selector due, and for an ad published within its interval. (The selector new, which
\* filters on the id itself, is left aside.)
C25_DeleteIgnoresSchedule ==
    (DeleteCompleted /\ ads_selector # "new") =>
        \A f \in Range(todo) :
            (~Inactive(f) /\ CarriesId(f)) =>
                Val(ResolvedAtLoad(f)["id"]).n \in Range(requests)

====
